---- MODULE Spec2Model ----
(***************************************************************************)
(* A model of the predicate combinators of predicates-rs: the boolean      *)
(* combinators (boolean.rs), the boxed wrapper (boxed.rs), the naming      *)
(* wrapper (name.rs), the string leaf predicates (str/basics.rs) and the   *)
(* string adapters (str/adapters.rs).                                      *)
(*                                                                         *)
(* A str is a sequence of Unicode code points, a [u8] / OsStr a sequence   *)
(* of bytes 0..255.  A predicate is a record tagged with its struct name.  *)
(* eval returns the boolean together with the ordered log of every eval    *)
(* call made on a node of the tree (the node's path from the root, the     *)
(* node, and the item it was handed).                                      *)
(***************************************************************************)
EXTENDS Naturals, Sequences, FiniteSets, TLC

\* ------------------------------------------------------------------ bounds
MaxLen == 3        \* longest str input, in chars
MaxBytes == 2      \* longest [u8] / OsStr input, in bytes
MaxCount == 2      \* largest count handed to ContainsPredicate::count
MaxWraps == 2      \* builder calls applied on top of a leaf

\* -------------------------------------------------------------------- state
VARIABLES
  pred,     \* the predicate expression the caller holds
  op,       \* the last call made on it: "new", "eval" or "fmt"
  input,    \* the item handed to it, when the last call was an eval
  result,   \* what that eval returned
  trace,    \* the eval calls that eval made, in order
  desc,     \* what to_string returned, when the last call was that
  first     \* when tracked: the item and result of the first eval made on pred,
            \* and whether an eval of another item was made since

vars == <<pred, op, input, result, trace, desc, first>>

\* ------------------------------------------------------- input alphabets
StrChars == {97, 32}            \* 'a', ' '
ByteVals == {97, 195, 169}      \* 'a', and the two bytes of U+00E9
Patterns == {<<>>, <<97>>, <<97, 97>>}
Labels == {"non-empty", "var.is_empty()"}

RECURSIVE SeqsUpTo(_, _)
SeqsUpTo(S, n) ==
  IF n = 0 THEN {<<>>}
  ELSE LET shorter == SeqsUpTo(S, n - 1)
       IN shorter \cup {Append(s, c) : s \in {t \in shorter : Len(t) = n - 1}, c \in S}

StrItem(s) == [ty |-> "str", v |-> s]
U8Item(b) == [ty |-> "u8", v |-> b]
OsStrItem(b) == [ty |-> "OsStr", v |-> b]

StrItems == {StrItem(s) : s \in SeqsUpTo(StrChars, MaxLen)}
ByteItems == {U8Item(b) : b \in SeqsUpTo(ByteVals, MaxBytes)}
               \cup {OsStrItem(b) : b \in SeqsUpTo(ByteVals, MaxBytes)}

\* ------------------------------------------------- std::str, as the code uses it
\* str::is_empty
str_is_empty(s) == Len(s) = 0

\* pat occurs in s at (1-based) position i
OccursAt(s, pat, i) ==
  /\ i >= 1
  /\ i + Len(pat) - 1 <= Len(s)
  /\ \A k \in 1..Len(pat) : s[i + k - 1] = pat[k]

\* str::starts_with(&String)
str_starts_with(s, pat) == OccursAt(s, pat, 1)

\* str::ends_with(&String)
str_ends_with(s, pat) == Len(pat) <= Len(s) /\ OccursAt(s, pat, Len(s) - Len(pat) + 1)

\* str::contains(&String)
str_contains(s, pat) == \E i \in 1..(Len(s) + 1) : OccursAt(s, pat, i)

\* str::matches(&String).count(): the searcher walks left to right and resumes
\* after the end of each match; an empty needle matches at every char boundary.
RECURSIVE matches_from(_, _, _)
matches_from(s, pat, i) ==
  IF i + Len(pat) - 1 > Len(s) THEN 0
  ELSE IF OccursAt(s, pat, i) THEN 1 + matches_from(s, pat, i + Len(pat))
  ELSE matches_from(s, pat, i + 1)

str_matches_count(s, pat) ==
  IF Len(pat) = 0 THEN Len(s) + 1 ELSE matches_from(s, pat, 1)

\* char::is_whitespace: the Unicode White_Space property
is_whitespace(c) ==
  \/ c \in 9..13
  \/ c \in {32, 133, 160, 5760, 8232, 8233, 8239, 8287, 12288}
  \/ c \in 8192..8202

RECURSIVE trim_start(_)
trim_start(s) ==
  IF Len(s) > 0 /\ is_whitespace(Head(s)) THEN trim_start(Tail(s)) ELSE s

RECURSIVE trim_end(_)
trim_end(s) ==
  IF Len(s) > 0 /\ is_whitespace(s[Len(s)])
  THEN trim_end(SubSeq(s, 1, Len(s) - 1)) ELSE s

\* str::trim
str_trim(s) == trim_end(trim_start(s))

\* str::from_utf8: Ok(chars) when the bytes are well-formed UTF-8, Err otherwise.
IsCont(b) == b \in 128..191

RECURSIVE utf8_decode(_, _)
utf8_decode(b, acc) ==
  IF Len(b) = 0 THEN [ok |-> TRUE, s |-> acc]
  ELSE LET b1 == b[1] IN
    IF b1 < 128 THEN utf8_decode(Tail(b), Append(acc, b1))
    ELSE IF b1 \in 194..223 THEN
      IF Len(b) >= 2 /\ IsCont(b[2])
      THEN utf8_decode(SubSeq(b, 3, Len(b)),
                       Append(acc, (b1 - 192) * 64 + (b[2] - 128)))
      ELSE [ok |-> FALSE, s |-> <<>>]
    ELSE IF b1 \in 224..239 THEN
      IF /\ Len(b) >= 3
         /\ IsCont(b[2]) /\ IsCont(b[3])
         /\ (b1 = 224 => b[2] >= 160)
         /\ (b1 = 237 => b[2] <= 159)
      THEN utf8_decode(SubSeq(b, 4, Len(b)),
                       Append(acc, (b1 - 224) * 4096 + (b[2] - 128) * 64 + (b[3] - 128)))
      ELSE [ok |-> FALSE, s |-> <<>>]
    ELSE IF b1 \in 240..244 THEN
      IF /\ Len(b) >= 4
         /\ IsCont(b[2]) /\ IsCont(b[3]) /\ IsCont(b[4])
         /\ (b1 = 240 => b[2] >= 144)
         /\ (b1 = 244 => b[2] <= 143)
      THEN utf8_decode(SubSeq(b, 5, Len(b)),
                       Append(acc, (b1 - 240) * 262144 + (b[2] - 128) * 4096
                                     + (b[3] - 128) * 64 + (b[4] - 128)))
      ELSE [ok |-> FALSE, s |-> <<>>]
    ELSE [ok |-> FALSE, s |-> <<>>]

str_from_utf8(b) == utf8_decode(b, <<>>)

\* OsStr::to_str (Unix: an OsStr is arbitrary bytes, Some(&str) iff valid UTF-8)
OsStr_to_str(b) == utf8_decode(b, <<>>)

\* fmt::Debug for String ({:?}): the text in double quotes
CharText(c) ==
  CASE c = 97 -> "a"
    [] c = 32 -> " "
    [] OTHER -> "\\u{..}"

RECURSIVE Text(_)
Text(s) == IF Len(s) = 0 THEN "" ELSE CharText(Head(s)) \o Text(Tail(s))

DebugString(s) == "\"" \o Text(s) \o "\""

\* ------------------------------------------------------------ constructors
\* str/basics.rs
is_empty == [kind |-> "IsEmptyPredicate"]
starts_with(pattern) == [kind |-> "StartsWithPredicate", pattern |-> pattern]
ends_with(pattern) == [kind |-> "EndsWithPredicate", pattern |-> pattern]
contains(pattern) == [kind |-> "ContainsPredicate", pattern |-> pattern]
ContainsPredicate_count(self, count) ==
  [kind |-> "MatchesPredicate", pattern |-> self.pattern, count |-> count]

\* boolean.rs
AndPredicate_new(a, b) == [kind |-> "AndPredicate", a |-> a, b |-> b]
OrPredicate_new(a, b) == [kind |-> "OrPredicate", a |-> a, b |-> b]
NotPredicate_new(inner) == [kind |-> "NotPredicate", inner |-> inner]

\* boxed.rs
BoxPredicate_new(inner) == [kind |-> "BoxPredicate", inner |-> inner]

\* name.rs
name(self, n) == [kind |-> "NamePredicate", inner |-> self, name |-> n]

\* str/adapters.rs
trim(self) == [kind |-> "TrimPredicate", p |-> self]
from_utf8(self) == [kind |-> "Utf8Predicate", p |-> self]

\* --------------------------------------------------------------------- eval
\* One log entry per eval call, in call order: where the node sits in the tree,
\* the node, the item it was handed and what the call returned.
Call(path, p, item, res) == [path |-> path, pred |-> p, item |-> item, res |-> res]
Ret(res, log) == [res |-> res, log |-> log]

RECURSIVE eval(_, _, _)

\* str/basics.rs: the leaves
IsEmptyPredicate_eval(self, variable) == str_is_empty(variable)
StartsWithPredicate_eval(self, variable) == str_starts_with(variable, self.pattern)
EndsWithPredicate_eval(self, variable) == str_ends_with(variable, self.pattern)
ContainsPredicate_eval(self, variable) == str_contains(variable, self.pattern)
\* mutant: counts every position the pattern occurs at, overlapping or not
MatchesPredicate_eval_overlapping(self, variable) ==
  Cardinality({i \in 1..(Len(variable) + 1) : OccursAt(variable, self.pattern, i)})
    = self.count

\* mutant: the predicate keeps its last answer, and a match once found sticks
MatchesPredicate_eval_sticky(self, variable) ==
  \/ str_matches_count(variable, self.pattern) = self.count
  \/ (op = "eval" /\ result)

MatchesPredicate_eval(self, variable) ==
  str_matches_count(variable, self.pattern) = self.count

\* mutant: && written as ||
AndPredicate_eval_or(self, item, path) ==
  LET ra == eval(self.a, item, Append(path, "a")) IN
  IF ra.res
  THEN Ret(TRUE, ra.log)
  ELSE LET rb == eval(self.b, item, Append(path, "b")) IN Ret(rb.res, ra.log \o rb.log)

\* mutant: && written as the eager &, which evaluates both operands
AndPredicate_eval_eager(self, item, path) ==
  LET ra == eval(self.a, item, Append(path, "a"))
      rb == eval(self.b, item, Append(path, "b"))
  IN Ret(ra.res /\ rb.res, ra.log \o rb.log)

\* boolean.rs: self.a.eval(item) && self.b.eval(item)
AndPredicate_eval(self, item, path) ==
  LET ra == eval(self.a, item, Append(path, "a")) IN
  IF ra.res
  THEN LET rb == eval(self.b, item, Append(path, "b")) IN Ret(rb.res, ra.log \o rb.log)
  ELSE Ret(FALSE, ra.log)

\* mutant: || written as &&
OrPredicate_eval_and(self, item, path) ==
  LET ra == eval(self.a, item, Append(path, "a")) IN
  IF ra.res
  THEN LET rb == eval(self.b, item, Append(path, "b")) IN Ret(rb.res, ra.log \o rb.log)
  ELSE Ret(FALSE, ra.log)

\* boolean.rs: self.a.eval(item) || self.b.eval(item)
OrPredicate_eval(self, item, path) ==
  LET ra == eval(self.a, item, Append(path, "a")) IN
  IF ra.res
  THEN Ret(TRUE, ra.log)
  ELSE LET rb == eval(self.b, item, Append(path, "b")) IN Ret(rb.res, ra.log \o rb.log)

\* boolean.rs: !self.inner.eval(item)
NotPredicate_eval(self, item, path) ==
  LET r == eval(self.inner, item, Append(path, "inner")) IN Ret(~r.res, r.log)

\* boxed.rs: self.0.eval(variable)
BoxPredicate_eval(self, variable, path) ==
  eval(self.inner, variable, Append(path, "0"))

\* name.rs: self.inner.eval(item)
NamePredicate_eval(self, item, path) ==
  eval(self.inner, item, Append(path, "inner"))

\* mutant: trim_start() for trim()
TrimPredicate_eval_start(self, variable, path) ==
  eval(self.p, StrItem(trim_start(variable.v)), Append(path, "p"))

\* str/adapters.rs: self.p.eval(variable.trim())
TrimPredicate_eval(self, variable, path) ==
  eval(self.p, StrItem(str_trim(variable.v)), Append(path, "p"))

\* mutant: unwrap_or(true)
Utf8Predicate_eval_OsStr_true(self, variable, path) ==
  LET r == OsStr_to_str(variable.v) IN
  IF r.ok THEN eval(self.p, StrItem(r.s), Append(path, "p")) ELSE Ret(TRUE, <<>>)

\* str/adapters.rs: variable.to_str().map(|s| self.p.eval(s)).unwrap_or(false)
Utf8Predicate_eval_OsStr(self, variable, path) ==
  LET r == OsStr_to_str(variable.v) IN
  IF r.ok THEN eval(self.p, StrItem(r.s), Append(path, "p")) ELSE Ret(FALSE, <<>>)

\* mutant: from_utf8_lossy-like, the inner predicate runs on whatever decoded
Utf8Predicate_eval_u8_lossy(self, variable, path) ==
  LET r == str_from_utf8(variable.v) IN
  eval(self.p, StrItem(r.s), Append(path, "p"))

\* str/adapters.rs: str::from_utf8(variable).map(|s| self.p.eval(s)).unwrap_or(false)
Utf8Predicate_eval_u8(self, variable, path) ==
  LET r == str_from_utf8(variable.v) IN
  IF r.ok THEN eval(self.p, StrItem(r.s), Append(path, "p")) ELSE Ret(FALSE, <<>>)

\* Predicate::eval, dispatched on the node's type
eval(p, item, path) ==
  LET r ==
    CASE p.kind = "IsEmptyPredicate" -> Ret(IsEmptyPredicate_eval(p, item.v), <<>>)
      [] p.kind = "StartsWithPredicate" -> Ret(StartsWithPredicate_eval(p, item.v), <<>>)
      [] p.kind = "EndsWithPredicate" -> Ret(EndsWithPredicate_eval(p, item.v), <<>>)
      [] p.kind = "ContainsPredicate" -> Ret(ContainsPredicate_eval(p, item.v), <<>>)
      [] p.kind = "MatchesPredicate" -> Ret(MatchesPredicate_eval(p, item.v), <<>>)
      [] p.kind = "AndPredicate" -> AndPredicate_eval(p, item, path)
      [] p.kind = "OrPredicate" -> OrPredicate_eval(p, item, path)
      [] p.kind = "NotPredicate" -> NotPredicate_eval(p, item, path)
      [] p.kind = "BoxPredicate" -> BoxPredicate_eval(p, item, path)
      [] p.kind = "NamePredicate" -> NamePredicate_eval(p, item, path)
      [] p.kind = "TrimPredicate" -> TrimPredicate_eval(p, item, path)
      [] p.kind = "Utf8Predicate" /\ item.ty = "OsStr" -> Utf8Predicate_eval_OsStr(p, item, path)
      [] p.kind = "Utf8Predicate" /\ item.ty = "u8" -> Utf8Predicate_eval_u8(p, item, path)
  IN Ret(r.res, <<Call(path, p, item, r.res)>> \o r.log)

\* ------------------------------------------------------------ fmt::Display
RECURSIVE Display(_)

\* The types with an impl of fmt::Display: the boolean combinators have none,
\* and the adapters print their inner predicate.
RECURSIVE HasDisplay(_)
HasDisplay(p) ==
  CASE p.kind \in {"AndPredicate", "OrPredicate", "NotPredicate"} -> FALSE
    [] p.kind \in {"TrimPredicate", "Utf8Predicate"} -> HasDisplay(p.p)
    [] OTHER -> TRUE

IsEmptyPredicate_fmt(self) == "var.is_empty()"
StartsWithPredicate_fmt(self) == "var.starts_with(" \o DebugString(self.pattern) \o ")"
EndsWithPredicate_fmt(self) == "var.ends_with(" \o DebugString(self.pattern) \o ")"
ContainsPredicate_fmt(self) == "var.contains(" \o DebugString(self.pattern) \o ")"
MatchesPredicate_fmt(self) ==
  "var.contains(" \o DebugString(self.pattern) \o ", " \o ToString(self.count) \o ")"
BoxPredicate_fmt(self) == "BoxPredicate"
\* mutant: prints the wrapped predicate when it can be printed
NamePredicate_fmt_inner(self) ==
  IF HasDisplay(self.inner) THEN Display(self.inner) ELSE self.name

NamePredicate_fmt(self) == self.name
TrimPredicate_fmt(self) == Display(self.p)
Utf8Predicate_fmt(self) == Display(self.p)

Display(p) ==
  CASE p.kind = "IsEmptyPredicate" -> IsEmptyPredicate_fmt(p)
    [] p.kind = "StartsWithPredicate" -> StartsWithPredicate_fmt(p)
    [] p.kind = "EndsWithPredicate" -> EndsWithPredicate_fmt(p)
    [] p.kind = "ContainsPredicate" -> ContainsPredicate_fmt(p)
    [] p.kind = "MatchesPredicate" -> MatchesPredicate_fmt(p)
    [] p.kind = "BoxPredicate" -> BoxPredicate_fmt(p)
    [] p.kind = "NamePredicate" -> NamePredicate_fmt(p)
    [] p.kind = "TrimPredicate" -> TrimPredicate_fmt(p)
    [] p.kind = "Utf8Predicate" -> Utf8Predicate_fmt(p)

\* ------------------------------------------------------------------ typing
\* The Item the predicate is a Predicate<Item> of: &str, or &[u8] / &OsStr.
RECURSIVE ItemOf(_)
ItemOf(p) ==
  CASE p.kind \in {"AndPredicate", "OrPredicate"} -> ItemOf(p.a)
    [] p.kind \in {"NotPredicate", "BoxPredicate", "NamePredicate"} -> ItemOf(p.inner)
    [] p.kind = "Utf8Predicate" -> "bytes"
    [] OTHER -> "str"

Items(p) == IF ItemOf(p) = "str" THEN StrItems ELSE ByteItems

\* builder calls applied on top of the leaf
RECURSIVE Wraps(_)
Wraps(p) ==
  CASE p.kind \in {"AndPredicate", "OrPredicate"} -> 1 + Wraps(p.a)
    [] p.kind \in {"NotPredicate", "BoxPredicate", "NamePredicate"} -> 1 + Wraps(p.inner)
    [] p.kind \in {"TrimPredicate", "Utf8Predicate"} -> 1 + Wraps(p.p)
    [] OTHER -> 0

\* the second operand handed to and / or (predicates over &str, like the first)
StrOperands ==
  { NotPredicate_new(ends_with(<<32>>)),
    OrPredicate_new(trim(is_empty), contains(<<97, 97>>)) }

\* ------------------------------------------------------------------ actions
NoItem == [ty |-> "none", v |-> <<>>]
Untracked == [st |-> "off"]
NoCall == [st |-> "none"]
FirstCall(x, r, b) == [st |-> "set", item |-> x, result |-> r, between |-> b]

\* a constructor or builder call returned p: the caller holds p, nothing was
\* evaluated or printed on it yet
Built(p) ==
  /\ pred' = p
  /\ op' = "new"
  /\ input' = NoItem
  /\ result' = FALSE
  /\ trace' = <<>>
  /\ desc' = ""
  /\ first' = IF first = Untracked THEN Untracked ELSE NoCall

Fresh(p, f) ==
  /\ pred = p
  /\ op = "new"
  /\ input = NoItem
  /\ result = FALSE
  /\ trace = <<>>
  /\ desc = ""
  /\ first = f

\* contains(pattern).count(n)
Count ==
  /\ pred.kind = "ContainsPredicate"
  /\ \E n \in 0..MaxCount : Built(ContainsPredicate_count(pred, n))

\* AndPredicate::new(pred, q)
And ==
  /\ Wraps(pred) < MaxWraps
  /\ ItemOf(pred) = "str"
  /\ \E q \in StrOperands : Built(AndPredicate_new(pred, q))

\* OrPredicate::new(pred, q)
Or ==
  /\ Wraps(pred) < MaxWraps
  /\ ItemOf(pred) = "str"
  /\ \E q \in StrOperands : Built(OrPredicate_new(pred, q))

\* NotPredicate::new(pred)
Not ==
  /\ Wraps(pred) < MaxWraps
  /\ Built(NotPredicate_new(pred))

\* BoxPredicate::new(pred)
Boxed ==
  /\ Wraps(pred) < MaxWraps
  /\ Built(BoxPredicate_new(pred))

\* pred.name(n)
Name ==
  /\ Wraps(pred) < MaxWraps
  /\ \E n \in Labels : Built(name(pred, n))

\* pred.trim()
Trim ==
  /\ Wraps(pred) < MaxWraps
  /\ ItemOf(pred) = "str"
  /\ Built(trim(pred))

\* pred.from_utf8()
FromUtf8 ==
  /\ Wraps(pred) < MaxWraps
  /\ ItemOf(pred) = "str"
  /\ Built(from_utf8(pred))

\* pred.eval(x)
Eval ==
  \E x \in Items(pred) :
    LET r == eval(pred, x, <<>>) IN
    /\ op' = "eval"
    /\ input' = x
    /\ result' = r.res
    /\ trace' = r.log
    /\ desc' = ""
    /\ first' = CASE first = NoCall -> FirstCall(x, r.res, FALSE)
                  [] first = Untracked -> Untracked
                  [] OTHER -> FirstCall(first.item, first.result,
                                        first.between \/ x # first.item)
    /\ UNCHANGED pred

\* pred.to_string()
Describe ==
  /\ HasDisplay(pred)
  /\ op' = "fmt"
  /\ desc' = Display(pred)
  /\ input' = NoItem
  /\ result' = FALSE
  /\ trace' = <<>>
  /\ UNCHANGED <<pred, first>>

\* ----------------------------------------------------------- specifications
\* The combinators: a leaf, wrapped by and / or / not / box / name.
Init ==
  \E p \in {is_empty, starts_with(<<97>>), contains(<<97>>)} :
    Fresh(p, Untracked)

Next ==
  \/ And
  \/ Or
  \/ Not
  \/ Boxed
  \/ Name
  \/ Eval
  \/ Describe

Spec == Init /\ [][Next]_vars

\* The str predicates and their adapters: any leaf, any pattern, wrapped by
\* count / trim / from_utf8 / not.
InitStr ==
  \E p \in {is_empty} \cup {starts_with(pt) : pt \in Patterns}
                      \cup {ends_with(pt) : pt \in Patterns}
                      \cup {contains(pt) : pt \in Patterns} :
    Fresh(p, Untracked)

NextStr ==
  \/ Count
  \/ Not
  \/ Trim
  \/ FromUtf8
  \/ Eval
  \/ Describe

SpecStr == InitStr /\ [][NextStr]_vars

\* One predicate, evaluated and printed again and again; the first eval made
\* on it is remembered.
RepeatPreds ==
  { ContainsPredicate_count(contains(<<97>>), 1),
    trim(ends_with(<<97>>)),
    BoxPredicate_new(AndPredicate_new(starts_with(<<97>>),
                                      NotPredicate_new(ends_with(<<32>>)))),
    name(OrPredicate_new(is_empty, contains(<<97, 97>>)), "non-empty"),
    from_utf8(NotPredicate_new(is_empty)),
    NotPredicate_new(from_utf8(trim(is_empty))) }

InitRepeat == \E p \in RepeatPreds : Fresh(p, NoCall)

NextRepeat ==
  \/ Eval
  \/ Describe

SpecRepeat == InitRepeat /\ [][NextRepeat]_vars

\* =================================================================== claims
\* the positions of the trace whose call was made on the node at path
CallsAt(path) == {i \in DOMAIN trace : trace[i].path = path}

\* path lies in the subtree rooted at prefix
Under(prefix, path) ==
  Len(path) >= Len(prefix) /\ SubSeq(path, 1, Len(prefix)) = prefix

\* C1: and(p,p2).eval(x) = p.eval(x) && p2.eval(x), or(p,p2).eval(x) =
\* p.eval(x) || p2.eval(x), not(p).eval(x) = !p.eval(x), and every child that
\* is evaluated is handed the same x.
C1_BooleanCombinators ==
  op = "eval" =>
    /\ pred.kind = "AndPredicate" =>
         result = (eval(pred.a, input, <<>>).res /\ eval(pred.b, input, <<>>).res)
    /\ pred.kind = "OrPredicate" =>
         result = (eval(pred.a, input, <<>>).res \/ eval(pred.b, input, <<>>).res)
    /\ pred.kind = "NotPredicate" =>
         result = ~eval(pred.inner, input, <<>>).res
    /\ pred.kind \in {"AndPredicate", "OrPredicate", "NotPredicate"} =>
         \A i \in DOMAIN trace : Len(trace[i].path) = 1 => trace[i].item = input

\* an and evaluated to true on a non-empty item: both children ran on that item
C1_Witness ==
  /\ op = "eval"
  /\ pred.kind = "AndPredicate"
  /\ result
  /\ input.v # <<>>
  /\ CallsAt(<<"a">>) # {} /\ CallsAt(<<"b">>) # {}

\* C2: at every and / or node of the tree, at any depth, a is called first;
\* b is not called when a decides the result (a false under and, a true under
\* or) and is otherwise called exactly once, after a and all of a's subtree.
C2_ShortCircuit ==
  op = "eval" =>
    \A i \in DOMAIN trace :
      trace[i].pred.kind \in {"AndPredicate", "OrPredicate"} =>
        LET path == trace[i].path
            A == CallsAt(Append(path, "a"))
            B == CallsAt(Append(path, "b"))
            decided == IF trace[i].pred.kind = "AndPredicate"
                       THEN ~trace[i + 1].res ELSE trace[i + 1].res
        IN /\ A = {i + 1}
           /\ trace[i + 1].pred = trace[i].pred.a
           /\ IF decided
              THEN \A j \in DOMAIN trace : ~Under(Append(path, "b"), trace[j].path)
              ELSE /\ Cardinality(B) = 1
                   /\ \A j \in B :
                        /\ trace[j].pred = trace[i].pred.b
                        /\ \A k \in DOMAIN trace :
                             Under(Append(path, "a"), trace[k].path) => k < j

\* a nested and whose first operand was false, under an or that went on to
\* call its second operand
C2_Witness ==
  /\ op = "eval"
  /\ pred.kind = "OrPredicate"
  /\ CallsAt(<<"b">>) # {}
  /\ \E i \in DOMAIN trace :
       /\ Len(trace[i].path) >= 1
       /\ trace[i].pred.kind = "AndPredicate"
       /\ ~trace[i + 1].res

\* C3: box(p).eval(x) = p.eval(x) and box(p).describe() = p.describe().
C3_BoxTransparent ==
  pred.kind = "BoxPredicate" =>
    /\ op = "eval" => result = eval(pred.inner, input, <<>>).res
    /\ (op = "fmt" /\ HasDisplay(pred.inner)) => desc = Display(pred.inner)

\* C4: name(p, L).eval(x) = p.eval(x), and name(p, L).describe() is exactly L
\* whatever p prints.
C4_NameWrapper ==
  pred.kind = "NamePredicate" =>
    /\ op = "eval" => result = eval(pred.inner, input, <<>>).res
    /\ op = "fmt" => desc = pred.name

\* a named predicate was printed whose inner predicate prints something else
C4_Witness ==
  /\ op = "fmt"
  /\ pred.kind = "NamePredicate"
  /\ HasDisplay(pred.inner)
  /\ Display(pred.inner) # pred.name
  /\ desc = "non-empty"

\* C8: not(and(p,q)).eval(x) = or(not(p), not(q)).eval(x).
C8_DeMorgan ==
  op = "eval" =>
    /\ (pred.kind = "NotPredicate" /\ pred.inner.kind = "AndPredicate") =>
         result = eval(OrPredicate_new(NotPredicate_new(pred.inner.a),
                                       NotPredicate_new(pred.inner.b)),
                       input, <<>>).res
    /\ (/\ pred.kind = "OrPredicate"
        /\ pred.a.kind = "NotPredicate"
        /\ pred.b.kind = "NotPredicate") =>
         result = eval(NotPredicate_new(AndPredicate_new(pred.a.inner, pred.b.inner)),
                       input, <<>>).res

\* not(and(p,q)) was true because q alone was false
C8_Witness ==
  /\ op = "eval"
  /\ pred.kind = "NotPredicate"
  /\ pred.inner.kind = "AndPredicate"
  /\ result
  /\ eval(pred.inner.a, input, <<>>).res
  /\ ~eval(pred.inner.b, input, <<>>).res

\* The UTF-8 encoding of a text (a sequence of code points below 0x10000).
RECURSIVE utf8_encode(_)
utf8_encode(s) ==
  IF Len(s) = 0 THEN <<>>
  ELSE LET c == Head(s)
           enc == IF c < 128 THEN <<c>>
                  ELSE IF c < 2048 THEN <<192 + (c \div 64), 128 + (c % 64)>>
                  ELSE <<224 + (c \div 4096), 128 + ((c \div 64) % 64), 128 + (c % 64)>>
       IN enc \o utf8_encode(Tail(s))

\* the texts whose encoding uses the bytes of ByteVals only: 'a' and U+00E9
Texts == SeqsUpTo({97, 233}, MaxBytes)

\* the texts b is the UTF-8 encoding of (none when b is not valid UTF-8)
TextsOf(b) == {s \in Texts : utf8_encode(s) = b}

\* C5: from_utf8(p).eval(v) = p.eval(s) when v is the valid UTF-8 of the text
\* s; when v is not valid UTF-8 the result is false and p is not called.
C5_Utf8Adapter ==
  (op = "eval" /\ pred.kind = "Utf8Predicate") =>
    /\ result \in BOOLEAN
    /\ IF TextsOf(input.v) # {}
       THEN \A s \in TextsOf(input.v) :
              /\ result = eval(pred.p, StrItem(s), <<>>).res
              /\ \A i \in CallsAt(<<"p">>) : trace[i].item = StrItem(s)
       ELSE /\ result = FALSE
            /\ Len(trace) = 1

\* an invalid byte slice was handed to from_utf8(p) for a p that holds of the
\* empty text
C5_Witness ==
  /\ op = "eval"
  /\ pred.kind = "Utf8Predicate"
  /\ input.ty = "u8"
  /\ TextsOf(input.v) = {}
  /\ eval(pred.p, StrItem(<<>>), <<>>).res
  /\ ~result

\* The left-to-right scan for non-overlapping occurrences, stated as a set: a
\* position is taken iff pat occurs there and no taken position to its left
\* still covers it.
ScanMatches(s, pat) ==
  CHOOSE G \in SUBSET (1..(Len(s) + 1)) :
    \A q \in 1..(Len(s) + 1) :
      q \in G <=> /\ OccursAt(s, pat, q)
                  /\ ~\E g \in G : g < q /\ q < g + Len(pat)

\* C6: contains(pattern).count(n).eval(s) iff the left-to-right scan finds
\* exactly n non-overlapping occurrences; contains("aa").count(1) holds of
\* "aaa"; count(0) holds iff contains(pattern) does not.
C6_CountNonOverlapping ==
  (op = "eval" /\ pred.kind = "MatchesPredicate") =>
    /\ result = (Cardinality(ScanMatches(input.v, pred.pattern)) = pred.count)
    /\ pred.count = 0 => result = ~eval(contains(pred.pattern), input, <<>>).res
    /\ (pred.pattern = <<97, 97>> /\ pred.count = 1 /\ input.v = <<97, 97, 97>>)
         => result

\* contains("aa").count(1) was evaluated on "aaa"
C6_Witness ==
  /\ op = "eval"
  /\ pred = ContainsPredicate_count(contains(<<97, 97>>), 1)
  /\ input = StrItem(<<97, 97, 97>>)
  /\ result

\* s with its leading and trailing whitespace removed: the slice of s with
\* only whitespace before and after it that is empty or starts and ends with
\* a char that is not whitespace
Trimmed(s) ==
  CHOOSE t \in {SubSeq(s, i, j) : i \in 1..(Len(s) + 1), j \in 0..Len(s)} :
    \E i \in 1..(Len(s) + 1), j \in 0..Len(s) :
      /\ t = SubSeq(s, i, j)
      /\ \A k \in 1..Len(s) : (k < i \/ k > j) => is_whitespace(s[k])
      /\ \/ j < i
         \/ (~is_whitespace(s[i]) /\ ~is_whitespace(s[j]))

\* C7: trim(p).eval(s) = p.eval(t) for t = s without its leading and trailing
\* whitespace; p is called exactly once, on t.
C7_TrimAdapter ==
  (op = "eval" /\ pred.kind = "TrimPredicate") =>
    /\ result = eval(pred.p, StrItem(Trimmed(input.v)), <<>>).res
    /\ Cardinality(CallsAt(<<"p">>)) = 1
    /\ \A i \in CallsAt(<<"p">>) : trace[i].item = StrItem(Trimmed(input.v))
    /\ pred.p = is_empty => (result <=> \A k \in 1..Len(input.v) : is_whitespace(input.v[k]))

\* trim(p) was evaluated on " a " and held, for a p that does not hold of " a "
C7_Witness ==
  /\ op = "eval"
  /\ pred.kind = "TrimPredicate"
  /\ input = StrItem(<<32, 97, 32>>)
  /\ result
  /\ ~eval(pred.p, input, <<>>).res

\* C10: on an item that is not valid UTF-8, from_utf8(not(p)) is false and
\* not(from_utf8(p)) is true; on valid UTF-8 the two agree.
C10_Utf8NotCommute ==
  op = "eval" =>
    /\ (pred.kind = "Utf8Predicate" /\ pred.p.kind = "NotPredicate") =>
         LET other == eval(NotPredicate_new(from_utf8(pred.p.inner)), input, <<>>).res
         IN IF TextsOf(input.v) # {}
            THEN result = other
            ELSE ~result /\ other
    /\ (pred.kind = "NotPredicate" /\ pred.inner.kind = "Utf8Predicate") =>
         LET other == eval(from_utf8(NotPredicate_new(pred.inner.p)), input, <<>>).res
         IN IF TextsOf(input.v) # {}
            THEN result = other
            ELSE result /\ ~other

\* not(from_utf8(p)) held of an OsStr that is not valid UTF-8
C10_Witness ==
  /\ op = "eval"
  /\ pred.kind = "NotPredicate"
  /\ pred.inner.kind = "Utf8Predicate"
  /\ input.ty = "OsStr"
  /\ TextsOf(input.v) = {}
  /\ result

====
